---------------------------- MODULE Spec2Model ----------------------------
(***************************************************************************)
(* A model of zmwangx/ncov: the national bulletin scraper (scraper.py) and *)
(* the provincial one (hb_scraper.py) that fills the same date-keyed table. *)
(*                                                                         *)
(* Spec       the two pipelines (scraper.main, hb_scraper.main) running    *)
(*            against a changing web site and one shared table.            *)
(* SpecParse  the two parse_article functions applied to bounded inputs.   *)
(*                                                                         *)
(* A body text is modelled by what the code reads of it: the result of     *)
(* re.search for each rule.  A title is modelled by what title_pattern     *)
(* captures of it.  An optional integer (a nullable column, a capture      *)
(* group that may be None) is the empty set or a singleton.  A dict is a   *)
(* function whose DOMAIN is the set of its keys.                           *)
(***************************************************************************)
EXTENDS Integers, Sequences, FiniteSets, TLC

VARIABLES
    call,       \* SpecParse: the pending call, or Idle
    ret,        \* SpecParse: what the last call returned or raised
    site,       \* the national site's articles, oldest first (url = position)
    store,      \* the DataEntry table: a set of rows
    pc,         \* where the running script is, "idle" between runs
    run,        \* the running script's local variables
    last,       \* history: what the last processed document did
    hist        \* history: the last completed national run, the run's start

vars == <<call, ret, site, store, pc, run, last, hist>>

----------------------------------------------------------------------------
(* Bounds of the model.                                                     *)

\* Captured integers are drawn from 1..MaxCount.
MaxCount == 2
\* Articles the national site publishes besides the boundary article.
MaxArticles == 2

Counts == 1..MaxCount

----------------------------------------------------------------------------
(* Optional integers and dicts.                                             *)

None == {}
Some(v) == {v}
Val(o) == CHOOSE v \in o : TRUE

EmptyDict == [k \in {} |-> 0]
\* d[k] = v for a dict d
Put(d, k, v) == [x \in (DOMAIN d) \cup {k} |-> IF x = k THEN v ELSE d[x]]
\* del d[k]
Del(d, k) == [x \in (DOMAIN d) \ {k} |-> d[x]]
\* d.get(k)
Get(d, k) == IF k \in DOMAIN d THEN Some(d[k]) ELSE None

----------------------------------------------------------------------------
(* Calendar: datetime.date(2020, month, day).                               *)

DaysIn(month) ==
    IF month \in {4, 6, 9, 11} THEN 30
    ELSE IF month = 2 THEN 29
    ELSE 31

\* datetime.date(2020, month, day) raises ValueError unless this holds.
ValidDate(month, day) ==
    /\ month \in 1..12
    /\ day \in 1..DaysIn(month)

Date(month, day) == [year |-> 2020, month |-> month, day |-> day]

\* date - datetime.timedelta(days=1), for a date of 2020.
PrevDay(d) ==
    IF d.day > 1 THEN [d EXCEPT !.day = d.day - 1]
    ELSE IF d.month > 1 THEN [d EXCEPT !.month = d.month - 1, !.day = DaysIn(d.month - 1)]
    ELSE [year |-> d.year - 1, month |-> 12, day |-> 31]

\* A string of the form "MM-DD" as its character codes.
Lit(m1, m2, d1, d2) == <<48 + m1, 48 + m2, 45, 48 + d1, 48 + d2>>

\* The decimal digits of n >= 0 as character codes.
RECURSIVE Digits(_)
Digits(n) == IF n < 10 THEN <<48 + n>> ELSE Digits(n \div 10) \o <<48 + (n % 10)>>

\* f"{n:02}": at least two characters, padded with zeros on the left.
Pad2(n) == IF Len(Digits(n)) < 2 THEN <<48>> \o Digits(n) ELSE Digits(n)

\* f"{month:02}-{day:02}"
DateStr(month, day) == Pad2(month) \o <<45>> \o Pad2(day)

\* s < t on Python strings: lexicographic on the character codes.
RECURSIVE StrLess(_, _)
StrLess(s, t) ==
    IF t = <<>> THEN FALSE
    ELSE IF s = <<>> THEN TRUE
    ELSE IF Head(s) # Head(t) THEN Head(s) < Head(t)
    ELSE StrLess(Tail(s), Tail(t))

----------------------------------------------------------------------------
(* Titles: what title_pattern captures.                                     *)

\* A title that title_pattern does not match.
NoTitle == [match |-> FALSE, until |-> FALSE, month |-> 0, day |-> 0, boundary |-> FALSE]

\* A matching title; boundary marks the one title the index walk stops at.
Title(until, month, day) ==
    [match |-> TRUE, until |-> until, month |-> month, day |-> day, boundary |-> FALSE]

\* "1月21日新型冠状病毒感染的肺炎疫情情况"
BoundaryTitle ==
    [match |-> TRUE, until |-> FALSE, month |-> 1, day |-> 21, boundary |-> TRUE]

\* title_pattern.match(title)
title_pattern(title) == title.match

----------------------------------------------------------------------------
(* Rules of the national extractor.                                         *)

patterns ==
    << "new_confirmed", "hb_new_confirmed", "new_severe", "hb_new_severe",
       "new_death", "hb_new_death", "new_suspected", "hb_new_suspected",
       "new_cured", "hb_new_cured", "new_lifted", "remaining_confirmed",
       "hb_remaining_confirmed", "remaining_severe", "hb_remaining_severe",
       "cured", "hb_cured", "death", "hb_death", "total_confirmed",
       "hb_total_confirmed", "remaining_suspected", "hb_remaining_suspected",
       "total_tracked", "remaining_quarantined" >>

Categories == {patterns[i] : i \in 1..Len(patterns)}

\* The rules that have a second capture group, (?P<category2>...).
SecondGroup ==
    { "hb_new_confirmed", "hb_new_severe", "hb_new_death", "hb_new_suspected",
      "hb_new_cured", "remaining_quarantined" }

negative_patterns == {"new_severe"}

introduced ==
    [ new_death |-> Lit(0, 1, 2, 1),
      death |-> Lit(0, 1, 2, 1),
      remaining_severe |-> Lit(0, 1, 2, 1),
      new_cured |-> Lit(0, 1, 2, 3),
      cured |-> Lit(0, 1, 2, 3),
      new_severe |-> Lit(0, 1, 2, 5),
      hb_new_death |-> Lit(0, 1, 2, 5),
      hb_new_confirmed |-> Lit(0, 2, 0, 1),
      hb_new_severe |-> Lit(0, 2, 0, 1),
      hb_new_suspected |-> Lit(0, 2, 0, 1),
      hb_new_cured |-> Lit(0, 2, 0, 1),
      remaining_confirmed |-> Lit(0, 2, 0, 6),
      hb_total_confirmed |-> Lit(0, 2, 1, 2),
      hb_remaining_confirmed |-> Lit(0, 2, 1, 2),
      hb_remaining_severe |-> Lit(0, 2, 1, 2),
      hb_remaining_suspected |-> Lit(0, 2, 1, 2),
      hb_cured |-> Lit(0, 2, 1, 2),
      hb_death |-> Lit(0, 2, 1, 2) ]

----------------------------------------------------------------------------
(* Match objects: what re.search(pattern, body, re.M) returns.              *)

\* re.search found nothing.
NoMatch == <<>>
\* A match: the groups m[category] and m[category + "2"], each None or set.
Plain(v) == <<Some(v), None>>
Second(v) == <<None, Some(v)>>

\* count = int(m[category]) if m[category] else int(m[f"{category}2"])
Count(m) == IF m[1] # None THEN Val(m[1]) ELSE Val(m[2])

\* The match objects a rule can return on some body.
Matches(category) ==
    {NoMatch} \cup {Plain(v) : v \in Counts}
              \cup (IF category \in SecondGroup THEN {Second(v) : v \in Counts} ELSE {})

----------------------------------------------------------------------------
(* scraper.parse_article.  A body is [pos, neg]: the rules of patterns and  *)
(* of negative_patterns that match it, each with its match object.          *)

\* re.search(rule, body, re.M) for the category's rule in the dict rules.
Search(rules, category) ==
    IF category \in DOMAIN rules THEN rules[category] ELSE NoMatch

\* What a parse_article call returned (status "ok") or raised.
Result(status, date, date_str, data, diags) ==
    [status |-> status, date |-> date, date_str |-> date_str,
     data |-> data, diags |-> diags]

\* An exception left the call; diags were logged before it.
Raised(exc, diags) == Result(exc, Date(0, 0), <<>>, EmptyDict, diags)

NotYetIntroduced_OnOrBefore(category, date_str) ==
    /\ category \in DOMAIN introduced
    /\ ~StrLess(introduced[category], date_str)

\* category in introduced and date_str < introduced[category]
NotYetIntroduced(category, date_str) ==
    /\ category \in DOMAIN introduced
    /\ StrLess(date_str, introduced[category])

Negate_Kept(count) == count

\* count = -int(m[category])
Negate(count) == 0 - count

\* The loop over patterns.items(), from the i-th rule on: the dict built and
\* the categories logger.critical was called for, in order.
RECURSIVE Extract(_, _, _, _, _)
Extract(i, body, date_str, data, diags) ==
    IF i > Len(patterns) THEN [data |-> data, diags |-> diags]
    ELSE LET category == patterns[i]
             m == Search(body.pos, category)
         IN  IF m # NoMatch
             THEN Extract(i + 1, body, date_str, Put(data, category, Count(m)), diags)
             ELSE IF category \in negative_patterns /\ Search(body.neg, category) # NoMatch
             THEN Extract(i + 1, body, date_str,
                          Put(data, category, Negate(Count(Search(body.neg, category)))), diags)
             ELSE IF NotYetIntroduced(category, date_str)
             THEN Extract(i + 1, body, date_str, data, diags)
             ELSE Extract(i + 1, body, date_str, data, Append(diags, category))

\* day -= 1 when the title has no as-of marker.
ReportedDay(title) == IF ~title.until THEN title.day - 1 ELSE title.day

parse_article(title, body) ==
    IF ~title_pattern(title) THEN Raised("TypeError", <<>>)
    ELSE LET month == title.month
             day == ReportedDay(title)
         IN  IF ~ValidDate(month, day) THEN Raised("ValueError", <<>>)
             ELSE LET date_str == DateStr(month, day)
                      r == Extract(1, body, date_str, EmptyDict, <<>>)
                  IN  Result("ok", Date(month, day), date_str, r.data, r.diags)

----------------------------------------------------------------------------
(* hb_scraper.parse_article.  A body is [line, pos]: what date_pattern      *)
(* captures at its start, and the match object of each rule.                *)

hb_patterns ==
    << "hb_new_confirmed", "hb_new_death", "hb_new_cured", "hb_remaining_severe",
       "hb_remaining_critical", "hb_cured", "hb_death", "hb_total_confirmed",
       "hb_remaining_suspected" >>

HbCategories == {hb_patterns[i] : i \in 1..Len(hb_patterns)}

hb_introduced ==
    [ hb_new_cured |-> Lit(0, 1, 2, 9),
      hb_remaining_suspected |-> Lit(0, 2, 0, 8) ]

\* A body whose start date_pattern does not match.
NoLine == [match |-> FALSE, month |-> 0, day |-> 0]
Line(month, day) == [match |-> TRUE, month |-> month, day |-> day]

\* date_pattern.match(body)
date_pattern(body) == body.line.match

HbNotYetIntroduced(category, date_str) ==
    /\ category \in DOMAIN hb_introduced
    /\ StrLess(date_str, hb_introduced[category])

RECURSIVE HbExtract(_, _, _, _, _)
HbExtract(i, body, date_str, data, diags) ==
    IF i > Len(hb_patterns) THEN [data |-> data, diags |-> diags]
    ELSE LET category == hb_patterns[i]
             m == Search(body.pos, category)
         IN  IF m # NoMatch
             THEN HbExtract(i + 1, body, date_str, Put(data, category, Count(m)), diags)
             ELSE IF HbNotYetIntroduced(category, date_str)
             THEN HbExtract(i + 1, body, date_str, data, diags)
             ELSE HbExtract(i + 1, body, date_str, data, Append(diags, category))

\* The critical count is folded into the severe one; a severe count without
\* a critical one is dropped.  Reading or deleting a missing key raises.
FoldCritical(data) ==
    IF "hb_remaining_critical" \in DOMAIN data
    THEN IF "hb_remaining_severe" \notin DOMAIN data THEN [raised |-> TRUE, data |-> data]
         ELSE [raised |-> FALSE,
               data |-> Del(Put(data, "hb_remaining_severe",
                                data["hb_remaining_severe"] + data["hb_remaining_critical"]),
                            "hb_remaining_critical")]
    ELSE IF "hb_remaining_severe" \notin DOMAIN data THEN [raised |-> TRUE, data |-> data]
         ELSE [raised |-> FALSE, data |-> Del(data, "hb_remaining_severe")]

\* hb_remaining_confirmed, when its three operands were all extracted.
AddRemainingConfirmed(data) ==
    IF {"hb_total_confirmed", "hb_cured", "hb_death"} \subseteq DOMAIN data
    THEN Put(data, "hb_remaining_confirmed",
             data["hb_total_confirmed"] - data["hb_cured"] - data["hb_death"])
    ELSE data

hb_parse_article(body) ==
    IF ~date_pattern(body) THEN Raised("TypeError", <<>>)
    ELSE LET month == body.line.month
             day == body.line.day
         IN  IF ~ValidDate(month, day) THEN Raised("ValueError", <<>>)
             ELSE LET date_str == DateStr(month, day)
                      r == HbExtract(1, body, date_str, EmptyDict, <<>>)
                      f == FoldCritical(r.data)
                  IN  IF f.raised THEN Raised("KeyError", r.diags)
                      ELSE Result("ok", Date(month, day), date_str,
                                  AddRemainingConfirmed(f.data), r.diags)

----------------------------------------------------------------------------
(* Inputs of SpecParse.                                                     *)

\* Every title title_pattern matches that names a day of 2020, and one it
\* does not match.
AllTitles ==
    {NoTitle} \cup
    UNION { {Title(u, mo, d) : u \in BOOLEAN, d \in 1..DaysIn(mo)} : mo \in 1..12 }

\* The rules that match a base body: none, or every rule with its first
\* group.
BaseBodies ==
    { EmptyDict, [c \in Categories |-> Plain(1)] }

\* A base body with one rule's result changed, and any result of the
\* negative rule.
NatBodies ==
    UNION { UNION { { [pos |-> IF ma = NoMatch THEN Del(base, a) ELSE Put(base, a, ma),
                       neg |-> n]
                      : ma \in Matches(a),
                        n \in {EmptyDict} \cup {[c \in negative_patterns |-> Plain(v)] : v \in Counts} }
                    : a \in Categories }
            : base \in BaseBodies }

\* Titles around every threshold of introduced: the day before and the day.
ThresholdTitles ==
    { Title(u, md[1], md[2]) :
        u \in BOOLEAN,
        md \in { <<1, 20>>, <<1, 21>>, <<1, 22>>, <<1, 23>>, <<1, 24>>, <<1, 25>>,
                 <<1, 31>>, <<2, 1>>, <<2, 5>>, <<2, 6>>, <<2, 11>>, <<2, 12>> } }

\* Every title with a base body, and the titles around the thresholds with
\* every body of NatBodies.
NatInputs ==
    { <<t, [pos |-> base, neg |-> EmptyDict]>> :
        t \in AllTitles, base \in BaseBodies }
    \cup (ThresholdTitles \X NatBodies)

\* The first lines of provincial bodies: around the two thresholds of
\* hb_introduced, and one date_pattern does not match.
HbLines ==
    {NoLine, Line(1, 28), Line(1, 29), Line(2, 7), Line(2, 8)}

\* Every set of matching rules, the matches all capturing the same count.
HbBodies ==
    { [line |-> l, pos |-> [c \in S |-> Plain(v)]] :
        l \in HbLines, S \in SUBSET HbCategories, v \in Counts }

Idle == [fn |-> "idle"]
NoRet == Raised("none", <<>>)

ParseNational ==
    /\ call = Idle
    /\ \E in \in NatInputs :
          /\ call' = [fn |-> "parse_article", title |-> in[1], body |-> in[2]]
          /\ ret' = parse_article(in[1], in[2])
    /\ UNCHANGED <<site, store, pc, run, last, hist>>

ParseProvincial ==
    /\ call = Idle
    /\ \E body \in HbBodies :
          /\ call' = [fn |-> "hb_parse_article", body |-> body]
          /\ ret' = hb_parse_article(body)
    /\ UNCHANGED <<site, store, pc, run, last, hist>>

Return ==
    /\ call # Idle
    /\ call' = Idle
    /\ ret' = NoRet
    /\ UNCHANGED <<site, store, pc, run, last, hist>>

InitParse ==
    /\ call = Idle
    /\ ret = NoRet
    /\ site = <<>>
    /\ store = {}
    /\ pc = "idle"
    /\ run = EmptyDict
    /\ last = EmptyDict
    /\ hist = EmptyDict

NextParse == ParseNational \/ ParseProvincial \/ Return

SpecParse == InitParse /\ [][NextParse]_vars

----------------------------------------------------------------------------
(* The DataEntry table: a set of rows.  vals holds the integer columns that *)
(* are not NULL.                                                            *)

Row(date, url, title, body, vals) ==
    [date |-> date, article_url |-> url, article_title |-> title,
     article_body |-> body, vals |-> vals]

\* The unique indexes on date and article_url refuse the insert.
UniqueViolation(rows, row) ==
    \E r \in rows : r.date = row.date \/ r.article_url = row.article_url

\* DataEntry.create(**data), when no unique index refuses it.
Create(rows, row) == rows \cup {row}

\* DataEntry.get(date=date) raises DoesNotExist unless this holds.
Exists(rows, date) == \E r \in rows : r.date = date

\* DataEntry.get(date=date)
GetEntry(rows, date) == CHOOSE r \in rows : r.date = date

\* DataEntry.update(**data).where(DataEntry.date == date).execute()
Update(rows, date, data) ==
    { IF r.date = date
      THEN [r EXCEPT !.vals = [k \in (DOMAIN r.vals) \cup (DOMAIN data) |->
                                  IF k \in DOMAIN data THEN data[k] ELSE r.vals[k]]]
      ELSE r : r \in rows }

\* recorded_urls = set(entry.article_url for entry in DataEntry.select())
RecordedUrls(rows) == {r.article_url : r \in rows}

----------------------------------------------------------------------------
(* network_retry: tenacity.retry(wait_fixed(2), stop_after_attempt(3)).     *)

stop_after_two(attempt_number) == attempt_number >= 2

\* The stop condition, asked after a failed attempt.
stop_after_attempt(attempt_number) == attempt_number >= 3

----------------------------------------------------------------------------
(* scraper.get_article_list.  The index lists the site's articles newest    *)
(* first, PageSize to a page; an article's url is its position in site.     *)

\* Articles on one index page.
PageSize == 2

Reverse(seq) == [j \in 1..Len(seq) |-> seq[Len(seq) - j + 1]]

\* The (url, title) pairs of one index page whose title matches.
get_single_page(index, page) ==
    LET first == (page - 1) * PageSize + 1
        final == IF page * PageSize < Len(index) THEN page * PageSize ELSE Len(index)
        items == [j \in 1..(final - first + 1) |->
                     [url |-> Len(index) - (first + j - 1) + 1,
                      title |-> index[Len(index) - (first + j - 1) + 1]]]
    IN  SelectSeq(items, LAMBDA a : title_pattern(a.title))

\* The while loop, from the given page on.  A page past the end of the index
\* has no list and the fetch fails; articles[-1] of an empty list raises.
RECURSIVE WalkIndex(_, _, _, _)
WalkIndex(index, seen_urls, page, articles) ==
    IF (page - 1) * PageSize >= Len(index)
    THEN [status |-> "RetryError", articles |-> <<>>]
    ELSE LET acc == articles \o get_single_page(index, page)
         IN  IF acc = <<>> THEN [status |-> "IndexError", articles |-> <<>>]
             ELSE IF \/ acc[Len(acc)].title = BoundaryTitle
                     \/ acc[Len(acc)].url \in seen_urls
                  THEN [status |-> "ok", articles |-> Reverse(acc)]
                  ELSE WalkIndex(index, seen_urls, page + 1, acc)

get_article_list(index, seen_urls) == WalkIndex(index, seen_urls, 1, <<>>)

----------------------------------------------------------------------------
(* hb_scraper.main: the comparison with the stored entry.                   *)

Differs_Greater(existing_val, val) ==
    existing_val # None /\ val # None /\ Val(existing_val) > Val(val)

\* existing_val is not None and val is not None and existing_val != val
Differs(existing_val, val) ==
    existing_val # None /\ val # None /\ existing_val # val

\* The keys of patterns, in order, at which the loop would exit.
Discrepancies(entry, data) ==
    SelectSeq(hb_patterns,
              LAMBDA key : /\ key # "hb_remaining_critical"
                           /\ Differs(Get(entry.vals, key), Get(data, key)))

----------------------------------------------------------------------------
(* Inputs of Spec.                                                          *)

\* Provincial urls hb_scraper.main walks (the code lists twenty).
NHbUrls == 2

\* Index titles of published articles: one the pattern does not match, two
\* that resolve to 02-11, one that resolves to 02-12.
IdxTitles ==
    { NoTitle, Title(FALSE, 2, 12), Title(TRUE, 2, 11), Title(TRUE, 2, 12) }

\* National bodies: no rule matches, or two provincial sub-counts are stated
\* as 1.
PipeNatBodies ==
    { [pos |-> [c \in S |-> Plain(1)], neg |-> EmptyDict] :
        S \in {{}, {"hb_total_confirmed", "hb_remaining_confirmed"}} }

\* Provincial bodies: a date line; severe and critical both or neither; the
\* cumulative count or not; cured and death both or neither.
PipeHbBodies ==
    { [line |-> NoLine, pos |-> EmptyDict] } \cup
    { [line |-> l,
       pos |-> [c \in sev \cup tot \cup cd |->
                   IF c = "hb_total_confirmed" THEN Plain(v) ELSE Plain(1)]] :
        l \in {Line(2, 10), Line(2, 11)},
        sev \in {{}, {"hb_remaining_severe", "hb_remaining_critical"}},
        tot \in {{}, {"hb_total_confirmed"}},
        cd \in {{}, {"hb_cured", "hb_death"}},
        v \in Counts }

----------------------------------------------------------------------------
(* The two scripts.  run holds the locals of the running one.  last tells   *)
(* what the step just taken did when it processed a document or ended the   *)
(* script; hist tells what the running (or last) script did so far.         *)

NoRun == [recorded_urls |-> {}, articles |-> <<>>, i |-> 0, attempt |-> 0]

NoLast ==
    [op |-> "none", url |-> 0, outcome |-> "none", attempt |-> 0, matched |-> TRUE,
     date |-> Date(0, 0), data |-> EmptyDict,
     existed |-> FALSE, before |-> EmptyDict, key |-> "", existing_val |-> 0, val |-> 0]

Init ==
    /\ call = Idle
    /\ ret = NoRet
    /\ site = <<BoundaryTitle>>
    /\ store = {}
    /\ pc = "idle"
    /\ run = NoRun
    /\ last = NoLast
    /\ hist = [kind |-> "none", exit |-> "none", same |-> FALSE, start_store |-> {},
               start_len |-> 0, fetched |-> {}, skipped |-> {}, created |-> {},
               logged |-> FALSE, done_len |-> 0]

\* The site publishes one more article.
Publish ==
    /\ pc = "idle"
    /\ Len(site) < 1 + MaxArticles
    /\ \E t \in IdxTitles : site' = Append(site, t)
    /\ last' = NoLast
    /\ UNCHANGED <<call, ret, store, pc, run, hist>>

StartHist(kind) ==
    [hist EXCEPT !.kind = kind, !.exit = "running",
                 !.same = (kind = "nat" /\ hist.done_len = Len(site)),
                 !.start_store = IF kind = "nat" THEN store ELSE {},
                 !.start_len = Len(site),
                 !.fetched = {}, !.skipped = {}, !.created = {},
                 !.logged = FALSE]

\* The script ends: an exception or sys.exit leaves main, or main returns.
Exit(h, status) ==
    [h EXCEPT !.exit = status,
              !.done_len = IF h.kind = "nat" /\ status = "ok" THEN h.start_len
                           ELSE h.done_len]

----------------------------------------------------------------------------
(* scraper.main                                                             *)

\* recorded_urls is read, and the walk of the index begins.
NatStart ==
    /\ pc = "idle"
    /\ pc' = "nat_list"
    /\ run' = [NoRun EXCEPT !.recorded_urls = RecordedUrls(store), !.attempt = 1]
    /\ last' = NoLast
    /\ hist' = StartHist("nat")
    /\ UNCHANGED <<call, ret, site, store>>

\* A fetch of the index fails (the pages' fetches are retried as one).
NatListFail ==
    /\ pc = "nat_list"
    /\ IF stop_after_attempt(run.attempt)
       THEN /\ pc' = "idle"
            /\ run' = NoRun
            /\ hist' = Exit(hist, "RetryError")
            /\ last' = [NoLast EXCEPT !.op = "index", !.outcome = "RetryError",
                                      !.attempt = run.attempt]
       ELSE /\ run' = [run EXCEPT !.attempt = run.attempt + 1]
            /\ UNCHANGED <<pc, hist, last>>
    /\ UNCHANGED <<call, ret, site, store>>

\* articles = get_article_list(recorded_urls)
NatList ==
    /\ pc = "nat_list"
    /\ \E l \in {get_article_list(site, run.recorded_urls)} :
           IF l.status = "ok"
           THEN /\ pc' = "nat_doc"
                /\ run' = [run EXCEPT !.articles = l.articles, !.i = 1, !.attempt = 1]
                /\ hist' = hist
           ELSE /\ pc' = "idle"
                /\ run' = NoRun
                /\ hist' = Exit(hist, l.status)
    /\ UNCHANGED <<call, ret, site, store, last>>

\* The url of the article the loop is at.
NatUrl == run.articles[run.i].url

\* if url in recorded_urls
Recorded_Never(url, recorded_urls) == FALSE

Recorded(url, recorded_urls) == url \in recorded_urls

\* The loop moves on, or ends and main returns (after the export, which
\* only reads the table).
NatAdvance(h) ==
    IF run.i = Len(run.articles)
    THEN /\ pc' = "idle"
         /\ run' = NoRun
         /\ hist' = Exit(h, "ok")
    ELSE /\ pc' = pc
         /\ run' = [run EXCEPT !.i = run.i + 1, !.attempt = 1]
         /\ hist' = h

\* continue
NatSkip ==
    /\ pc = "nat_doc"
    /\ Recorded(NatUrl, run.recorded_urls)
    /\ NatAdvance([hist EXCEPT !.skipped = hist.skipped \cup {NatUrl}])
    /\ last' = NoLast
    /\ UNCHANGED <<call, ret, site, store>>

\* An attempt of get_article(url) fails.
NatFetchFail ==
    /\ pc = "nat_doc"
    /\ ~Recorded(NatUrl, run.recorded_urls)
    /\ IF stop_after_attempt(run.attempt)
       THEN /\ pc' = "idle"
            /\ run' = NoRun
            /\ hist' = Exit([hist EXCEPT !.fetched = hist.fetched \cup {NatUrl}],
                            "RetryError")
            /\ last' = [NoLast EXCEPT !.op = "nat", !.url = NatUrl,
                                      !.outcome = "RetryError", !.attempt = run.attempt]
       ELSE /\ run' = [run EXCEPT !.attempt = run.attempt + 1]
            /\ hist' = [hist EXCEPT !.fetched = hist.fetched \cup {NatUrl}]
            /\ last' = NoLast
            /\ pc' = pc
    /\ UNCHANGED <<call, ret, site, store>>

\* get_article(url) returns the page's title and body; parse_article and
\* DataEntry.create follow.
NatProcess ==
    /\ pc = "nat_doc"
    /\ ~Recorded(NatUrl, run.recorded_urls)
    /\ \E title \in {run.articles[run.i].title, NoTitle}, body \in PipeNatBodies :
          \E r \in {parse_article(title, body)} :
          LET row == Row(r.date, NatUrl, title, body, r.data)
              h == [hist EXCEPT !.fetched = hist.fetched \cup {NatUrl},
                                !.logged = hist.logged \/ r.diags # <<>>]
              l == [NoLast EXCEPT !.op = "nat", !.url = NatUrl, !.attempt = run.attempt,
                                  !.matched = title_pattern(title),
                                  !.date = r.date, !.data = r.data,
                                  !.existed = Exists(store, r.date)]
          IN  IF r.status # "ok"
              THEN /\ pc' = "idle"
                   /\ run' = NoRun
                   /\ hist' = Exit(h, r.status)
                   /\ last' = [l EXCEPT !.outcome = r.status]
                   /\ store' = store
              ELSE IF UniqueViolation(store, row)
              THEN /\ pc' = "idle"
                   /\ run' = NoRun
                   /\ hist' = Exit(h, "IntegrityError")
                   /\ last' = [l EXCEPT !.outcome = "IntegrityError"]
                   /\ store' = store
              ELSE /\ store' = Create(store, row)
                   /\ last' = [l EXCEPT !.outcome = "created"]
                   /\ NatAdvance([h EXCEPT !.created = h.created \cup {row}])
    /\ UNCHANGED <<call, ret, site>>

----------------------------------------------------------------------------
(* hb_scraper.main                                                          *)

HbStart ==
    /\ pc = "idle"
    /\ pc' = "hb_doc"
    /\ run' = [NoRun EXCEPT !.i = 1, !.attempt = 1]
    /\ last' = NoLast
    /\ hist' = StartHist("hb")
    /\ UNCHANGED <<call, ret, site, store>>

HbAdvance(h) ==
    IF run.i = NHbUrls
    THEN /\ pc' = "idle"
         /\ run' = NoRun
         /\ hist' = Exit(h, "ok")
    ELSE /\ pc' = pc
         /\ run' = [run EXCEPT !.i = run.i + 1, !.attempt = 1]
         /\ hist' = h

\* An attempt of get_article(url) fails.
HbFetchFail ==
    /\ pc = "hb_doc"
    /\ IF stop_after_attempt(run.attempt)
       THEN /\ pc' = "idle"
            /\ run' = NoRun
            /\ hist' = Exit(hist, "RetryError")
            /\ last' = [NoLast EXCEPT !.op = "hb", !.url = run.i,
                                      !.outcome = "RetryError", !.attempt = run.attempt]
       ELSE /\ run' = [run EXCEPT !.attempt = run.attempt + 1]
            /\ last' = NoLast
            /\ UNCHANGED <<pc, hist>>
    /\ UNCHANGED <<call, ret, site, store>>

\* get_article(url) returns the body; parse_article, DataEntry.get, the
\* comparison and DataEntry.update follow.
HbProcess ==
    /\ pc = "hb_doc"
    /\ \E body \in PipeHbBodies :
          \E r \in {hb_parse_article(body)} :
          LET h == [hist EXCEPT !.logged = hist.logged \/ r.diags # <<>>]
              l == [NoLast EXCEPT !.op = "hb", !.url = run.i, !.attempt = run.attempt,
                                  !.matched = date_pattern(body),
                                  !.date = r.date, !.existed = Exists(store, r.date)]
          IN  IF r.status # "ok"
              THEN /\ pc' = "idle"
                   /\ run' = NoRun
                   /\ hist' = Exit(h, r.status)
                   /\ last' = [l EXCEPT !.outcome = r.status]
                   /\ store' = store
              ELSE IF ~Exists(store, r.date)
              THEN /\ pc' = "idle"
                   /\ run' = NoRun
                   /\ hist' = Exit(h, "DoesNotExist")
                   /\ last' = [l EXCEPT !.outcome = "DoesNotExist"]
                   /\ store' = store
              ELSE \E entry \in {GetEntry(store, r.date)} :
                   \E d \in {Discrepancies(entry, r.data)} :
                       IF d # <<>>
                       THEN \* logger.critical(...); sys.exit(1)
                            /\ pc' = "idle"
                            /\ run' = NoRun
                            /\ hist' = Exit([h EXCEPT !.logged = TRUE], "exit 1")
                            /\ last' = [l EXCEPT !.outcome = "exit 1",
                                                 !.data = r.data,
                                                 !.before = entry.vals,
                                                 !.key = d[1],
                                                 !.existing_val = entry.vals[d[1]],
                                                 !.val = r.data[d[1]]]
                            /\ store' = store
                       ELSE /\ store' = Update(store, r.date, r.data)
                            /\ last' = [l EXCEPT !.outcome = "updated",
                                                 !.data = r.data,
                                                 !.before = entry.vals]
                            /\ HbAdvance(h)
    /\ UNCHANGED <<call, ret, site>>

Next ==
    \/ Publish
    \/ NatStart \/ NatListFail \/ NatList \/ NatSkip \/ NatFetchFail \/ NatProcess
    \/ HbStart \/ HbFetchFail \/ HbProcess

Spec == Init /\ [][Next]_vars

----------------------------------------------------------------------------
(* Derived columns of DataEntry, read when the table is exported.           *)

\* What reading an attribute returned (status "ok": None or a value) or
\* raised.
Attr(status, value) == [status |-> status, value |-> value]

\* getattr(self, name) for a column: None when it is NULL.
Column(entry, name) == Get(entry.vals, name)

\* DataEntry.remaining_confirmed_calc.  None - int raises TypeError.
remaining_confirmed_calc(entry) ==
    IF Column(entry, "remaining_confirmed") # None
    THEN Attr("ok", Column(entry, "remaining_confirmed"))
    ELSE IF Column(entry, "cured") # None /\ Column(entry, "death") # None
    THEN IF Column(entry, "total_confirmed") = None THEN Attr("TypeError", None)
         ELSE Attr("ok", Some(Val(Column(entry, "total_confirmed"))
                                - Val(Column(entry, "cured"))
                                - Val(Column(entry, "death"))))
    ELSE Attr("ok", None)

hb_new_severe_calc_Reversed(rows, entry) ==
    IF Column(entry, "hb_new_severe") # None
    THEN Attr("ok", Column(entry, "hb_new_severe"))
    ELSE IF /\ Column(entry, "hb_remaining_severe") # None
            /\ Exists(rows, PrevDay(entry.date))
            /\ Column(GetEntry(rows, PrevDay(entry.date)), "hb_remaining_severe") # None
    THEN Attr("ok", Some(Val(Column(GetEntry(rows, PrevDay(entry.date)), "hb_remaining_severe"))
                           - Val(Column(entry, "hb_remaining_severe"))))
    ELSE Attr("ok", None)

\* DataEntry.hb_new_severe_calc.  DataEntry.get(date=prev_day) raising
\* DoesNotExist is caught and gives None.
hb_new_severe_calc(rows, entry) ==
    IF Column(entry, "hb_new_severe") # None
    THEN Attr("ok", Column(entry, "hb_new_severe"))
    ELSE IF Column(entry, "hb_remaining_severe") # None
    THEN LET prev_day == PrevDay(entry.date)
         IN  IF ~Exists(rows, prev_day) THEN Attr("ok", None)
             ELSE LET prev_day_entry == GetEntry(rows, prev_day)
                  IN  IF Column(prev_day_entry, "hb_remaining_severe") # None
                      THEN Attr("ok", Some(Val(Column(entry, "hb_remaining_severe"))
                                             - Val(Column(prev_day_entry, "hb_remaining_severe"))))
                      ELSE Attr("ok", None)
    ELSE Attr("ok", None)

\* getattr(self, f"{attr}_calc"): one of the two properties, or the
\* AttributeError that __getattr__ raises for any other name.
CalcAttr(rows, entry, attr) ==
    IF attr = "remaining_confirmed" THEN remaining_confirmed_calc(entry)
    ELSE IF attr = "hb_new_severe" THEN hb_new_severe_calc(rows, entry)
    ELSE Attr("AttributeError", None)

\* The column, or when it is None its _calc attribute; an AttributeError is
\* passed over and leaves None, any other exception goes on.
Operand(rows, entry, attr) ==
    IF Column(entry, attr) # None THEN Attr("ok", Column(entry, attr))
    ELSE LET calc == CalcAttr(rows, entry, attr)
         IN  IF calc.status = "AttributeError" THEN Attr("ok", None) ELSE calc

\* DataEntry.__getattr__("not_hb_" + national_attr)
NotHb(rows, entry, national_attr) ==
    LET national_val == Operand(rows, entry, national_attr)
        hb_val == Operand(rows, entry, "hb_" \o national_attr)
    IN  IF national_val.status # "ok" THEN national_val
        ELSE IF hb_val.status # "ok" THEN hb_val
        ELSE IF national_val.value # None /\ hb_val.value # None
        THEN Attr("ok", Some(Val(national_val.value) - Val(hb_val.value)))
        ELSE Attr("ok", None)

\* The quantities whose not_hb_ attribute the export writes.
Exported ==
    { "total_confirmed", "remaining_confirmed", "remaining_severe",
      "remaining_suspected", "cured", "death", "new_confirmed", "new_severe",
      "new_suspected", "new_cured", "new_death" }

----------------------------------------------------------------------------
(* Inputs of SpecExport: tables the two scripts can leave behind.           *)

\* Dates of stored entries: two adjacent days within a month and two
\* adjacent days across the end of a month.
ExportDates == {Date(2, 11), Date(2, 12), Date(2, 29), Date(3, 1)}

\* Every choice of non-NULL columns among keys, with every count.
ColumnsOf(keys) == UNION {[S -> Counts] : S \in SUBSET keys}

\* The entry an article that resolved to date left, with the given columns.
Entry(date, vals) ==
    Row(date, date.month * 100 + date.day, Title(TRUE, date.month, date.day),
        [pos |-> EmptyDict, neg |-> EmptyDict], vals)

\* One entry, any of the columns remaining_confirmed is derived from or
\* subtracted from being NULL or not.
TotalsTables ==
    { {Entry(Date(2, 11), vals)} :
        vals \in ColumnsOf({"remaining_confirmed", "total_confirmed", "cured",
                            "death", "hb_remaining_confirmed"}) }

\* One or two entries with the columns the severe increase is derived from.
SevereTables ==
    UNION { { {Entry(d, vals)} \cup other :
                vals \in ColumnsOf({"hb_new_severe", "hb_remaining_severe", "new_severe"}),
                other \in {{}} \cup
                          { {Entry(d2, v2)} : d2 \in ExportDates \ {d},
                                              v2 \in ColumnsOf({"hb_remaining_severe"}) } }
            : d \in ExportDates }

ExportTables == TotalsTables \cup SevereTables

\* entry.remaining_confirmed_calc
ReadRemainingConfirmedCalc ==
    /\ call = Idle
    /\ \E entry \in store :
          /\ call' = [fn |-> "remaining_confirmed_calc", entry |-> entry, attr |-> ""]
          /\ ret' = remaining_confirmed_calc(entry)
    /\ UNCHANGED <<site, store, pc, run, last, hist>>

\* entry.hb_new_severe_calc
ReadHbNewSevereCalc ==
    /\ call = Idle
    /\ \E entry \in store :
          /\ call' = [fn |-> "hb_new_severe_calc", entry |-> entry, attr |-> ""]
          /\ ret' = hb_new_severe_calc(store, entry)
    /\ UNCHANGED <<site, store, pc, run, last, hist>>

\* entry.not_hb_<attr>
ReadNotHb ==
    /\ call = Idle
    /\ \E entry \in store, attr \in Exported :
          /\ call' = [fn |-> "not_hb", entry |-> entry, attr |-> attr]
          /\ ret' = NotHb(store, entry, attr)
    /\ UNCHANGED <<site, store, pc, run, last, hist>>

InitExport ==
    /\ call = Idle
    /\ ret = NoRet
    /\ site = <<>>
    /\ store \in ExportTables
    /\ pc = "idle"
    /\ run = EmptyDict
    /\ last = EmptyDict
    /\ hist = EmptyDict

NextExport == ReadRemainingConfirmedCalc \/ ReadHbNewSevereCalc \/ ReadNotHb \/ Return

SpecExport == InitExport /\ [][NextExport]_vars

----------------------------------------------------------------------------
(* Properties of the two scripts (Spec).                                    *)

\* The columns of the stored entry the last document was about.
Now == GetEntry(store, last.date).vals

\* The last step compared a provincial extraction with a stored entry.
Reconciled == last.op = "hb" /\ last.outcome \in {"updated", "exit 1"}

\* The stored and the scraped value of the key are both concrete and differ.
Contradicts(key) ==
    /\ key \in DOMAIN last.before
    /\ key \in DOMAIN last.data
    /\ last.before[key] # last.data[key]

(* C1: whenever a stored value and the scraped value of any indicator the   *)
(* provincial extraction yields differ, the script exits at once with       *)
(* status 1, the diagnostic names the date, a contradicted indicator and    *)
(* its two values, and the stored entry is left as it was.                  *)
C1_ContradictionHalts ==
    Reconciled =>
        \A key \in DOMAIN last.data :
            Contradicts(key) =>
                /\ last.outcome = "exit 1"
                /\ pc = "idle" /\ hist.exit = "exit 1"
                /\ Contradicts(last.key)
                /\ last.existing_val = last.before[last.key]
                /\ last.val = last.data[last.key]
                /\ Now = last.before

(* C2: when a date is reconciled without contradiction, every indicator the *)
(* extraction yields that was absent in the stored entry is set to the      *)
(* scraped value and every one whose stored value equals the scraped value  *)
(* is unchanged; and a scrape that differs from the stored value of an      *)
(* indicator of patterns exits with status 1 and overwrites nothing.        *)
C2_FillInOrHalt ==
    /\ last.op = "hb" /\ last.outcome = "updated" =>
          \A key \in DOMAIN last.data :
              /\ key \notin DOMAIN last.before =>
                    key \in DOMAIN Now /\ Now[key] = last.data[key]
              /\ key \in DOMAIN last.before /\ last.before[key] = last.data[key] =>
                    Now[key] = last.before[key]
    /\ Reconciled /\ (\E key \in HbCategories : Contradicts(key)) =>
          /\ last.outcome = "exit 1"
          /\ pc = "idle" /\ hist.exit = "exit 1"
          /\ Now = last.before

\* The cumulative count was filled in from a provincial body (the national
\* bodies of the model state 1, never 2), and a later provincial body that
\* states 1 made the script exit.
C2_Witness ==
    /\ last.op = "hb" /\ last.outcome = "exit 1"
    /\ last.key = "hb_total_confirmed"
    /\ last.existing_val = 2 /\ last.val = 1
    /\ Now["hb_total_confirmed"] = 2

(* C3: the table holds at most one entry per date, and persisting a         *)
(* document whose date is already stored under another url mutates that     *)
(* entry: the insert does not fail and the script goes on.                  *)
C3_UpsertByDate ==
    /\ \A r1, r2 \in store : r1.date = r2.date => r1 = r2
    /\ last.op = "nat" /\ last.existed /\ last.outcome \notin {"TypeError", "ValueError", "RetryError"} =>
          /\ last.outcome # "IntegrityError"
          /\ hist.exit \in {"running", "ok"}
          /\ Now = last.data

(* C4: a national run on the index an earlier national run completed on    *)
(* fetches no article, logs nothing and leaves the table as it was: every   *)
(* article of the list is recorded and skipped.                             *)
C4_RerunChangesNothing ==
    hist.kind = "nat" /\ hist.same =>
        /\ store = hist.start_store
        /\ hist.fetched = {}
        /\ hist.created = {}
        /\ ~hist.logged
        /\ hist.exit \in {"running", "ok", "RetryError"}
        /\ last.op \in {"none", "index"}
        /\ \A j \in 1..Len(run.articles) : run.articles[j].url \in run.recorded_urls

\* Such a run returned after skipping at least two recorded articles.
C4_Witness ==
    /\ hist.kind = "nat" /\ hist.same /\ hist.exit = "ok"
    /\ Cardinality(hist.skipped) >= 2
    /\ Cardinality(store) >= 2

(* C5: a fetch of an article gives up after the third failed attempt; the   *)
(* failure ends the run, the entries the run created before stay in the     *)
(* table with all that was there, and a run fetches only articles that were *)
(* not recorded when it started.                                            *)
C5_FetchExhaustion ==
    /\ last.op = "nat" /\ last.outcome = "RetryError" =>
          /\ last.attempt = 3
          /\ pc = "idle" /\ hist.exit = "RetryError"
          /\ store = hist.start_store \cup hist.created
          /\ Cardinality(store) = Cardinality(hist.start_store) + Cardinality(hist.created)
    /\ hist.kind = "nat" =>
          /\ hist.fetched \cap RecordedUrls(hist.start_store) = {}
          /\ hist.skipped \subseteq RecordedUrls(hist.start_store)
          /\ \A r \in hist.created : r.article_url \in hist.fetched

\* A run that skipped a recorded article and created an entry gave up on
\* the next article.
C5_Witness ==
    /\ last.op = "nat" /\ last.outcome = "RetryError"
    /\ hist.skipped # {}
    /\ hist.created # {}
    /\ pc = "idle"

(* C8: a document whose title (national) or first line (provincial) does    *)
(* not match is skipped: no exception ends the script on it and the table   *)
(* is untouched.                                                            *)
C8_MalformedSkipped ==
    last.op \in {"nat", "hb"} /\ ~last.matched =>
        /\ last.outcome # "TypeError"
        /\ hist.exit \in {"running", "ok"}

----------------------------------------------------------------------------
(* Properties of the two parse_article functions (SpecParse).               *)

NatCall == call # Idle /\ call.fn = "parse_article"
HbCall == call # Idle /\ call.fn = "hb_parse_article"

\* The date a string "MM-DD" names.
ParseMMDD(s) == Date((s[1] - 48) * 10 + (s[2] - 48), (s[4] - 48) * 10 + (s[5] - 48))

\* d1 is an earlier day of the year than d2.
Earlier(d1, d2) == d1.month * 100 + d1.day < d2.month * 100 + d2.day

\* No rule of the category matched the body of the pending call.
Unmatched(c) ==
    /\ c \notin DOMAIN call.body.pos
    /\ NatCall => c \notin DOMAIN call.body.neg

\* How many times logger.critical was called for the category.
Logged(c) == Cardinality({i \in 1..Len(ret.diags) : ret.diags[i] = c})

\* The date the claims give a matching title.
ClaimedDate(title) ==
    IF title.until THEN Date(title.month, title.day)
    ELSE PrevDay(Date(title.month, title.day))

(* C6: scraper.parse_article resolves every matching title: with the as-of  *)
(* marker to the literal (month, day) of the title, without it to that day  *)
(* minus one calendar day, and the MM-DD string names the resolved date.    *)
(* (Stated for the titles whose claimed date is a date of 2020.)            *)
C6_DateResolved ==
    NatCall /\ title_pattern(call.title) /\ ClaimedDate(call.title).year = 2020 =>
        /\ ret.status = "ok"
        /\ ret.date = ClaimedDate(call.title)
        /\ Len(ret.date_str) = 5
        /\ ParseMMDD(ret.date_str) = ret.date

(* C7: a matching title without the as-of marker whose day is 1 resolves to *)
(* the last day of the previous month, and no error is raised.  (Stated for *)
(* the months that have a previous month in 2020.)                          *)
C7_MonthRollover ==
    /\ NatCall /\ title_pattern(call.title)
    /\ ~call.title.until /\ call.title.day = 1 /\ call.title.month > 1
    => /\ ret.status # "ValueError"
       /\ ret.date.month = call.title.month - 1
       /\ ret.date.day = DaysIn(call.title.month - 1)

(* C9: once the date of a document is resolved, extraction does not fail    *)
(* whatever rules match: an unmatched indicator is absent from the result,  *)
(* it is logged when its threshold has passed, and the call returns.        *)
C9_ExtractionNeverFails ==
    /\ NatCall /\ ret.status \notin {"TypeError", "ValueError"} =>
          /\ ret.status = "ok"
          /\ \A c \in Categories : Unmatched(c) => c \notin DOMAIN ret.data
    /\ HbCall /\ ret.status \notin {"TypeError", "ValueError"} =>
          /\ ret.status = "ok"
          /\ \A c \in HbCategories : Unmatched(c) => c \notin DOMAIN ret.data

\* The resolved date of the pending call is before the category's threshold.
BeforeThreshold(c, thresholds, date) ==
    /\ c \in DOMAIN thresholds
    /\ Earlier(date, ParseMMDD(thresholds[c]))

\* The date the pending provincial call resolved (it is logged even when the
\* call raises later).
HbCallDate == Date(call.body.line.month, call.body.line.day)

(* C10 as claimed: before its threshold an indicator is absent from the     *)
(* extraction result and nothing is logged for it.                          *)
C10_AbsentBeforeThreshold ==
    NatCall /\ ret.status = "ok" =>
        \A c \in Categories :
            BeforeThreshold(c, introduced, ret.date) =>
                c \notin DOMAIN ret.data /\ Logged(c) = 0

(* C10 as amended: an indicator none of whose rules matches is absent from  *)
(* the result; nothing is logged for it when the resolved date is strictly  *)
(* before its threshold, and exactly one critical diagnostic is logged when *)
(* the date is on or after the threshold or the indicator has none.  An     *)
(* indicator whose rule matches is extracted whatever the date, silently.   *)
C10_ThresholdSilencesOnlyMisses ==
    /\ NatCall /\ ret.status = "ok" =>
          \A c \in Categories :
              /\ Unmatched(c) /\ BeforeThreshold(c, introduced, ret.date) =>
                    c \notin DOMAIN ret.data /\ Logged(c) = 0
              /\ Unmatched(c) /\ ~BeforeThreshold(c, introduced, ret.date) =>
                    c \notin DOMAIN ret.data /\ Logged(c) = 1
              /\ ~Unmatched(c) => c \in DOMAIN ret.data /\ Logged(c) = 0
    /\ HbCall /\ ret.status \in {"ok", "KeyError"} =>
          \A c \in HbCategories :
              /\ Unmatched(c) /\ BeforeThreshold(c, hb_introduced, HbCallDate) => Logged(c) = 0
              /\ Unmatched(c) /\ ~BeforeThreshold(c, hb_introduced, HbCallDate) => Logged(c) = 1
              /\ ~Unmatched(c) => Logged(c) = 0

\* A call the day before the threshold of hb_total_confirmed ("02-12") on
\* which that rule and the rule of new_lifted (no threshold) both miss: the
\* first is silent, the second logged.
C10_Witness ==
    /\ NatCall /\ ret.status = "ok"
    /\ ret.date = Date(2, 11)
    /\ Unmatched("hb_total_confirmed") /\ Logged("hb_total_confirmed") = 0
    /\ Unmatched("new_lifted") /\ Logged("new_lifted") = 1
    /\ "total_confirmed" \in DOMAIN ret.data

----------------------------------------------------------------------------
(* The value a national rule yields.                                        *)

\* C14: when scraper.parse_article returns, every indicator whose primary
\* rule matched holds the integer of the populated capture group, whatever
\* the negative rule found; an indicator whose primary rule did not match
\* and whose negative rule matched holds the negated captured integer.
C14_NegativeRule ==
    (NatCall /\ ret.status = "ok") =>
        \A c \in Categories :
            LET m == Search(call.body.pos, c)
                n == Search(call.body.neg, c)
            IN  /\ m # NoMatch =>
                      /\ c \in DOMAIN ret.data
                      /\ \E g \in 1..2 : m[g] = Some(ret.data[c])
                /\ (m = NoMatch /\ c \in negative_patterns /\ n # NoMatch) =>
                      /\ c \in DOMAIN ret.data
                      /\ ret.data[c] + Val(n[1]) = 0

\* C14 witness: a body stating only a decrease of severe cases was parsed
\* and new_severe is negative.
C14_Witness ==
    /\ NatCall /\ ret.status = "ok"
    /\ Search(call.body.pos, "new_severe") = NoMatch
    /\ Search(call.body.neg, "new_severe") # NoMatch
    /\ "new_severe" \in DOMAIN ret.data
    /\ ret.data["new_severe"] < 0

----------------------------------------------------------------------------
(* The life of a record (Spec).                                             *)

\* No step of either script removes the entry of a stored date.
NeverDeleted == \A r \in store : Exists(store', r.date)

\* The provincial script extracted a date the table has no entry of.
HbFirstEncounter ==
    /\ last.op = "hb"
    /\ last.outcome \in {"DoesNotExist", "updated", "exit 1"}
    /\ ~last.existed

(* C15: when the provincial script processes a date the table holds no      *)
(* entry of, the entry is created and the run does not fail; and no step of *)
(* either script deletes a stored entry.                                    *)
C15_CreatedOnFirstEncounter ==
    /\ [](HbFirstEncounter =>
             /\ last.outcome # "DoesNotExist"
             /\ hist.exit \in {"running", "ok"}
             /\ Exists(store, last.date))
    /\ [][NeverDeleted]_vars

----------------------------------------------------------------------------
(* Properties of the derived columns (SpecExport).                          *)

\* The attribute read by the call in progress.
CalcCall(fn) == call # Idle /\ call.fn = fn

\* total_confirmed - cured - death of the columns, when all three are set.
Remainder(vals) ==
    IF {"total_confirmed", "cured", "death"} \subseteq DOMAIN vals
    THEN Some(vals["total_confirmed"] - vals["cured"] - vals["death"])
    ELSE None

\* The derived remaining_confirmed as the contract states it.
ClaimedRemainingConfirmed(vals) ==
    IF "remaining_confirmed" \in DOMAIN vals THEN Some(vals["remaining_confirmed"])
    ELSE Remainder(vals)

(* C11: remaining_confirmed_calc raises nothing and is the extracted        *)
(* remaining_confirmed when present, else total_confirmed - cured - death   *)
(* when those three are present, else absent, also when cured and death are *)
(* present and total_confirmed is not.                                      *)
C11_RemainingConfirmedCalc ==
    CalcCall("remaining_confirmed_calc") =>
        /\ ret.status = "ok"
        /\ ret.value = ClaimedRemainingConfirmed(call.entry.vals)

\* The number of the day within 2020.
RECURSIVE DaysBefore(_)
DaysBefore(month) == IF month = 1 THEN 0 ELSE DaysBefore(month - 1) + DaysIn(month - 1)

Ordinal(d) == DaysBefore(d.month) + d.day

\* The stored entries of the calendar day before date.
Preceding(rows, date) ==
    {r \in rows : r.date.year = date.year /\ Ordinal(r.date) + 1 = Ordinal(date)}

\* The derived hb_new_severe as the contract states it.
ClaimedHbNewSevere(rows, entry) ==
    IF "hb_new_severe" \in DOMAIN entry.vals THEN Some(entry.vals["hb_new_severe"])
    ELSE IF /\ "hb_remaining_severe" \in DOMAIN entry.vals
            /\ \E p \in Preceding(rows, entry.date) : "hb_remaining_severe" \in DOMAIN p.vals
    THEN { entry.vals["hb_remaining_severe"] - p.vals["hb_remaining_severe"] :
             p \in {q \in Preceding(rows, entry.date) : "hb_remaining_severe" \in DOMAIN q.vals} }
    ELSE None

(* C12: for every exported quantity Q, not_hb_Q raises nothing and is the   *)
(* national operand minus the provincial one, each operand being its column *)
(* or, when that is NULL, its derived value; it is absent whenever one of   *)
(* the operands is.                                                         *)
C12_NotHbDifference ==
    CalcCall("not_hb") =>
        LET vals == call.entry.vals
            Resolved(attr) ==
                IF attr \in DOMAIN vals THEN Some(vals[attr])
                ELSE IF attr = "remaining_confirmed" THEN ClaimedRemainingConfirmed(vals)
                ELSE IF attr = "hb_new_severe" THEN ClaimedHbNewSevere(store, call.entry)
                ELSE None
            national_val == Resolved(call.attr)
            hb_val == Resolved("hb_" \o call.attr)
        IN  /\ ret.status = "ok"
            /\ ret.value = IF national_val # None /\ hb_val # None
                           THEN Some(Val(national_val) - Val(hb_val))
                           ELSE None

(* C13: hb_new_severe_calc raises nothing and is the extracted              *)
(* hb_new_severe when present; else the entry's hb_remaining_severe minus   *)
(* that of the entry of the preceding calendar day when both are present;   *)
(* else absent, in particular when the preceding day has no entry.          *)
C13_HbNewSevereCalc ==
    CalcCall("hb_new_severe_calc") =>
        /\ ret.status = "ok"
        /\ ret.value = ClaimedHbNewSevere(store, call.entry)

\* C13 witness: the increase of March 1 over February 29 was derived from
\* the two stored counts.
C13_Witness ==
    /\ CalcCall("hb_new_severe_calc")
    /\ call.entry.date = Date(3, 1)
    /\ "hb_new_severe" \notin DOMAIN call.entry.vals
    /\ Exists(store, Date(2, 29))
    /\ ret = Attr("ok", Some(1))

=============================================================================
